---- MODULE Spec2Model ----
(***************************************************************************)
(* Model of useZodFormValidator (src/src/useZodFormValidator.ts): a form   *)
(* validation composable that keeps a map of per-field errors next to a    *)
(* reactive map of form values and a zod object schema.                    *)
(***************************************************************************)
EXTENDS Integers, Sequences, FiniteSets, TLC

(***************************************************************************)
(* JavaScript values that can sit in the values map or in an event.        *)
(***************************************************************************)
Str(s) == [t |-> "string", s |-> s, n |-> 0]
Num(n) == [t |-> "number", s |-> "", n |-> n]
NaN == [t |-> "nan", s |-> "", n |-> 0]
Undefined == [t |-> "undefined", s |-> "", n |-> 0]
Fn == [t |-> "function", s |-> "", n |-> 0]

\* An entry of the errors record: boolean | string.
EBool(b) == [t |-> "boolean", b |-> b, s |-> ""]
EStr(s) == [t |-> "string", b |-> FALSE, s |-> s]

\* Properties every plain object inherits from Object.prototype; `in` sees
\* them and a property read returns the inherited function.
InheritedKeys == {"toString"}

\* Properties of the Ref wrapper around the values map (`.value`).
RefKeys == {"value"}

\* JavaScript `name in obj` for a plain object with the own keys `own`.
In(name, own) == name \in own \/ name \in InheritedKeys

\* JavaScript `obj[name]` for a plain object given as a function.
Get(obj, name) ==
  IF name \in DOMAIN obj THEN obj[name]
  ELSE IF name \in InheritedKeys THEN Fn
  ELSE Undefined

(***************************************************************************)
(* The schema library (zod 3): field rules and their safeParse.            *)
(***************************************************************************)
NoMin == -1

\* z.string(), z.string().min(m), z.string().min(m).email(), z.number(),
\* z.number().min(m), z.coerce.number()
Rule(type, coerce, min, email) ==
  [type |-> type, coerce |-> coerce, min |-> min, email |-> email]

\* The strings the email check of zod accepts, among the strings of the model.
EmailShaped == {"john@doe.io"}

\* Number(v) as z.coerce.number() applies it.
ToNumber(v) ==
  CASE v.t = "number" -> v
    [] v.t = "string" /\ v.s = "30" -> Num(30)
    [] v.t = "string" /\ v.s = "" -> Num(0)
    [] OTHER -> NaN

\* The name zod gives to the type of a value in "Expected x, received y".
ParsedType(v) == v.t

Issue(path, message) == [path |-> path, message |-> message]

InvalidTypeMessage(expected, v) ==
  IF v.t = "undefined" THEN "Required"
  ELSE "Expected " \o expected \o ", received " \o ParsedType(v)

\* The issues of the checks of a string rule, in the order of the checks.
StringChecks(rule, v, path) ==
  (IF rule.min # NoMin /\ Len(v.s) < rule.min
     THEN <<Issue(path, "String must contain at least "
                        \o ToString(rule.min) \o " character(s)")>>
     ELSE << >>)
  \o
  (IF rule.email /\ v.s \notin EmailShaped
     THEN <<Issue(path, "Invalid email")>>
     ELSE << >>)

NumberChecks(rule, v, path) ==
  IF rule.min # NoMin /\ v.n < rule.min
    THEN <<Issue(path, "Number must be greater than or equal to "
                       \o ToString(rule.min))>>
    ELSE << >>

\* rule._parse(value) at `path`: the issues it adds and the output value.
ParseAt(rule, value, path) ==
  LET input == IF rule.coerce /\ rule.type = "number"
                 THEN ToNumber(value) ELSE value
      issues == IF input.t # rule.type
                  THEN <<Issue(path, InvalidTypeMessage(rule.type, input))>>
                  ELSE IF rule.type = "string"
                    THEN StringChecks(rule, input, path)
                    ELSE NumberChecks(rule, input, path)
  IN [success |-> issues = << >>, issues |-> issues, data |-> input]

\* rule.safeParse(value)
safeParse(rule, value) == ParseAt(rule, value, << >>)

(***************************************************************************)
(* Object schemas: a shape (fields in declaration order) and the policy    *)
(* for keys that are not in the shape.                                     *)
(***************************************************************************)
Field(key, rule) == [key |-> key, rule |-> rule]

ZodObject(shape, unknownKeys) ==
  [kind |-> "ZodObject", shape |-> shape, unknownKeys |-> unknownKeys]

\* z.string(), z.number(): schemas without a shape
ZodString == [kind |-> "ZodString", shape |-> << >>, unknownKeys |-> "strip"]
ZodNumber == [kind |-> "ZodNumber", shape |-> << >>, unknownKeys |-> "strip"]

ShapeKeys(shape) == {shape[i].key : i \in 1..Len(shape)}

ShapeRule(shape, key) ==
  LET i == CHOOSE j \in 1..Len(shape) : shape[j].key = key IN shape[i].rule

\* The keys of a set of strings as a sequence, in some fixed order.
RECURSIVE SeqOf(_)
SeqOf(S) ==
  IF S = {} THEN << >>
  ELSE LET k == CHOOSE x \in S : TRUE IN <<k>> \o SeqOf(S \ {k})

RECURSIVE Quoted(_)
Quoted(keys) ==
  IF keys = << >> THEN ""
  ELSE "'" \o Head(keys) \o "'"
       \o (IF Len(keys) > 1 THEN ", " ELSE "") \o Quoted(Tail(keys))

\* The issues of the fields of the shape, field after field.
RECURSIVE FieldIssues(_, _)
FieldIssues(shape, input) ==
  IF shape = << >> THEN << >>
  ELSE ParseAt(Head(shape).rule, Get(input, Head(shape).key),
               <<Head(shape).key>>).issues
       \o FieldIssues(Tail(shape), input)

\* ZodObject.safeParse(input) for an object input.
safeParseObject(schema, input) ==
  LET keys == ShapeKeys(schema.shape)
      extraKeys == DOMAIN input \ keys
      unknown == IF schema.unknownKeys = "strict" /\ extraKeys # {}
                   THEN <<Issue(<< >>, "Unrecognized key(s) in object: "
                                       \o Quoted(SeqOf(extraKeys)))>>
                   ELSE << >>
      issues == FieldIssues(schema.shape, input) \o unknown
      kept == IF schema.unknownKeys = "passthrough" THEN extraKeys ELSE {}
      data == [k \in keys \cup kept |->
                 IF k \in keys
                   THEN ParseAt(ShapeRule(schema.shape, k), Get(input, k),
                                <<k>>).data
                   ELSE input[k]]
  IN [success |-> issues = << >>, issues |-> issues, data |-> data]

\* Array.prototype.join
RECURSIVE Join(_, _)
Join(path, sep) ==
  IF path = << >> THEN ""
  ELSE IF Len(path) = 1 THEN Head(path)
  ELSE Head(path) \o sep \o Join(Tail(path), sep)

(***************************************************************************)
(* Bounds and the inputs the model draws from.                             *)
(***************************************************************************)
MaxKeys == 2

StringMin5 == Rule("string", FALSE, 5, FALSE)
StringMin5Email == Rule("string", FALSE, 5, TRUE)
NumberMin18 == Rule("number", FALSE, 18, FALSE)
CoerceNumber == Rule("number", TRUE, NoMin, FALSE)

EmptySchema == ZodObject(<< >>, "strip")
TestSchema ==
  ZodObject(<<Field("name", StringMin5), Field("age", NumberMin18)>>, "strip")
StrictSchema == ZodObject(<<Field("name", StringMin5Email)>>, "strict")
PassSchema == ZodObject(<<Field("age", CoerceNumber)>>, "passthrough")

Schemas == {ZodString, ZodNumber, EmptySchema, TestSchema, StrictSchema, PassSchema}

\* The third argument of the composable: omitted, or a mode.
Omitted == [given |-> FALSE, mode |-> ""]
Options == {Omitted, [given |-> TRUE, mode |-> "onChange"]}

ValueKeys == {"name", "age", "value"}

FieldValues(key) ==
  CASE key = "name" -> {Str("John"), Str("john@doe.io")}
    [] key = "age" -> {Num(25), Num(10), Str("30")}
    [] OTHER -> {Str("John")}

AllValues == UNION {FieldValues(k) : k \in ValueKeys}

\* The values maps: at most MaxKeys keys.
ValueMaps ==
  UNION {{f \in [K -> AllValues] : \A k \in K : f[k] \in FieldValues(k)} :
         K \in {S \in SUBSET ValueKeys : Cardinality(S) <= MaxKeys}}

\* Triggers handed to handleInputBlur: a string, an object with or without
\* a target, null, a number.
NoTarget == [present |-> FALSE, hasName |-> FALSE, name |-> "",
             value |-> Undefined]
Target(hasName, name, value) ==
  [present |-> TRUE, hasName |-> hasName, name |-> name, value |-> value]
Trigger(kind, s, target) == [kind |-> kind, s |-> s, target |-> target]

TriggerNames == {"name", "age", "value", "toString", ""}
EventNames == {"name", "age", "value", ""}

\* target.value of an input of that name: always a string
EventValues(name) ==
  CASE name = "name" -> {Str("John"), Str("john@doe.io")}
    [] name = "age" -> {Str("30")}
    [] OTHER -> {Str("John")}

Triggers ==
  {Trigger("string", s, NoTarget) : s \in TriggerNames}
  \cup UNION {{Trigger("object", "", Target(TRUE, n, v)) :
                 v \in EventValues(n)} : n \in EventNames}
  \cup {Trigger("object", "", Target(FALSE, "", Str("John"))),
        Trigger("object", "", NoTarget), Trigger("null", "", NoTarget),
        Trigger("number", "", NoTarget)}

\* the name a trigger carries, "" when it carries none
TriggerName(e) == IF e.kind = "string" THEN e.s ELSE e.target.name

\* "event" for an object with a target, else the kind of the trigger
TriggerKind(e) ==
  IF e.kind = "object" /\ e.target.present THEN "event" ELSE e.kind

OverrideNames == {"name"}
OverrideValues == {EBool(TRUE), EBool(FALSE), EStr(""),
                   EStr("Custom error message")}

(***************************************************************************)
(* State.                                                                  *)
(***************************************************************************)
VARIABLES
  engine,            \* "Uninitialized", "Ready" or "Failed"
  validationSchema,  \* the schema handed to the composable
  options,           \* the options handed to the composable
  values,            \* values.value, the values map
  errors,            \* errors.value
  cells,             \* the reactive cells the composable has created
  watching,          \* whether the watch on values is installed
  last               \* the last call: what it was, threw and returned

vars == <<engine, validationSchema, options, values, errors, cells,
          watching, last>>

NoReturn == [isValid |-> FALSE, sanitizedValues |-> << >>]

\* kind: the kind of trigger of a handleInputBlur call; name: the name the
\* trigger or the override carries; value: the value of an override;
\* changed: what the watch callback of a values update computed as
\* propertiesThatChanged
Call(op, thrown, kind, name, value, ret) ==
  [op |-> op, thrown |-> thrown, kind |-> kind, name |-> name,
   value |-> value, ret |-> ret, changed |-> {}]

Init ==
  /\ engine = "Uninitialized"
  /\ validationSchema \in Schemas
  /\ options \in Options
  /\ values \in ValueMaps
  /\ errors = << >>
  /\ cells = {}
  /\ watching = FALSE
  /\ last = Call("none", "none", "", "", EBool(FALSE), NoReturn)

\* options, with the default of the parameter
\* Variant: an omitted options object means onChange.
ModeDefaultOnChange == IF options.given THEN options.mode ELSE "onChange"

Mode == IF options.given THEN options.mode ELSE "onBlur"

\* const schema = validationSchema.shape ? validationSchema.shape : ...
schema == validationSchema.shape

\* JavaScript truthiness of a value
Truthy(v) ==
  CASE v.t = "string" -> v.s # ""
    [] v.t = "number" -> v.n # 0
    [] v.t = "function" -> TRUE
    [] OTHER -> FALSE

\* Object.values(obj) as an array
ObjectValues(obj) == [i \in 1..Cardinality(DOMAIN obj) |->
                        obj[SeqOf(DOMAIN obj)[i]]]

\* Array.prototype.findIndex, 0-based, -1 when nothing matches; `tests` is
\* the result of the callback on each element
\* Variant: positions count from one and zero means that none matched.
FindIndexFromOne(tests) ==
  IF \E i \in 1..Len(tests) : tests[i]
    THEN CHOOSE i \in 1..Len(tests) :
           tests[i] /\ \A j \in 1..(i - 1) : ~tests[j]
    ELSE 0

FindIndex(tests) ==
  IF \E i \in 1..Len(tests) : tests[i]
    THEN (CHOOSE i \in 1..Len(tests) :
            tests[i] /\ \A j \in 1..(i - 1) : ~tests[j]) - 1
    ELSE -1

\* Variant: only a non-empty string or true is an error.
IsErrorIfTruthy(value) ==
  (value.t = "string" /\ value.s # "") \/ value = EBool(TRUE)

\* (value) => typeof value === 'string' || value === true
IsError(value) == value.t = "string" \/ value = EBool(TRUE)

\* Variant: the comparison with -1 is inverted.
IsValidOfInverted(errs) ==
  LET vs == ObjectValues(errs)
  IN FindIndex([i \in 1..Len(vs) |-> IsError(vs[i])]) # -1

\* the computed isValid
IsValidOf(errs) ==
  LET vs == ObjectValues(errs)
  IN FindIndex([i \in 1..Len(vs) |-> IsError(vs[i])]) = -1
isValid == IsValidOf(errors)

(***************************************************************************)
(* The operations of the composable, as functions of the state they read.  *)
(***************************************************************************)
\* obj[key] = value on a plain object
Put(obj, key, value) ==
  [k \in DOMAIN obj \cup {key} |-> IF k = key THEN value ELSE obj[k]]

Outcome(thrown, errs) == [thrown |-> thrown, errors |-> errs]

\* Variant: no check of the schema.
IsZodObjectUnchecked(s) == TRUE

\* validationSchema instanceof z.ZodObject
IsZodObject(s) == s.kind = "ZodObject"

\* Variant: the message of the last issue instead of the first.
FirstMessageOfLastIssue(result) ==
  IF ~result.success THEN EStr(result.issues[Len(result.issues)].message)
  ELSE EBool(FALSE)

\* !result.success && result.error ? result.error.issues[0].message : false
FirstMessage(result) ==
  IF ~result.success THEN EStr(result.issues[1].message) ELSE EBool(FALSE)

\* `target.name in values`: values is the Ref, not the values map
NameInValues(name, vals) == In(name, RefKeys)

\* Variant: the name of the target is not checked.
ResolveWithoutNameCheck(e, vals) ==
  IF e.kind = "string" /\ e.s # ""
    THEN [thrown |-> "none", name |-> e.s, value |-> Get(vals, e.s)]
  ELSE IF e.kind = "object" /\ e.target.present
    THEN [thrown |-> "none", name |-> e.target.name,
          value |-> IF In(e.target.name, RefKeys)
                      THEN Get(vals, e.target.name)
                      ELSE e.target.value]
  ELSE [thrown |-> "UnsupportedTriggerError", name |-> "",
        value |-> Undefined]

\* The first half of handleInputBlur: the name and the value to validate.
\*   'handleInputBlur must be used with an input that has a name attribute'
\*     is MissingNameAttributeError,
\*   'handleInputBlur got wrong event type' is UnsupportedTriggerError.
Resolve(e, vals) ==
  IF e.kind = "string" /\ e.s # ""
    THEN [thrown |-> "none", name |-> e.s, value |-> Get(vals, e.s)]
  ELSE IF e.kind = "object" /\ e.target.present
    THEN IF ~e.target.hasName \/ e.target.name = ""
           THEN [thrown |-> "MissingNameAttributeError", name |-> "",
                 value |-> Undefined]
           ELSE [thrown |-> "none", name |-> e.target.name,
                 value |-> IF NameInValues(e.target.name, vals)
                             THEN Get(vals, e.target.name)
                             ELSE e.target.value]
  ELSE [thrown |-> "UnsupportedTriggerError", name |-> "",
        value |-> Undefined]

\* if (name && name in schema && schema[name]) { ... }
\* A name inherited from Object.prototype passes the test and has no
\* safeParse: the call is a TypeError.
\* Variant: a message is appended to the message the field already has.
ValidateResolvedAppending(name, value, shape, errs) ==
  IF name # "" /\ In(name, ShapeKeys(shape))
    THEN IF name \in ShapeKeys(shape)
           THEN LET m == FirstMessage(safeParse(ShapeRule(shape, name), value))
                    old == Get(errs, name)
                IN Outcome("none",
                     Put(errs, name,
                         IF m.t = "string" /\ old.t = "string"
                           THEN EStr(old.s \o m.s) ELSE m))
           ELSE Outcome("TypeError", errs)
    ELSE Outcome("none", errs)

ValidateResolved(name, value, shape, errs) ==
  IF name # "" /\ In(name, ShapeKeys(shape))
    THEN IF name \in ShapeKeys(shape)
           THEN Outcome("none",
                  Put(errs, name,
                      FirstMessage(safeParse(ShapeRule(shape, name), value))))
           ELSE Outcome("TypeError", errs)
    ELSE Outcome("none", errs)

handleInputBlur(e, vals, shape, errs) ==
  LET r == Resolve(e, vals)
  IN IF r.thrown # "none" THEN Outcome(r.thrown, errs)
     ELSE ValidateResolved(r.name, r.value, shape, errs)

\* toValue(schema)[name].safeParse(value): a TypeError when the shape has no
\* rule of that name
validateProperty(name, value, shape, errs) ==
  IF name \in ShapeKeys(shape)
    THEN Outcome("none",
           Put(errs, name,
               FirstMessage(safeParse(ShapeRule(shape, name), value))))
    ELSE Outcome("TypeError", errs)

\* Variant: the entry is a flag, true for a truthy value.
overrideFieldErrorAsFlag(name, errorValue, errs) ==
  Put(errs, name,
      EBool(errorValue = EBool(TRUE)
            \/ (errorValue.t = "string" /\ errorValue.s # "")))

overrideFieldError(name, errorValue, errs) == Put(errs, name, errorValue)

\* Variant: only the first issue is recorded.
PutFirstIssueOnly(issues, errs) ==
  IF issues = << >> THEN errs
  ELSE Put(errs, Join(Head(issues).path, "."), EStr(Head(issues).message))

\* for (const issue of error.issues) errors[issue.path.join('.')] = message
RECURSIVE PutIssues(_, _)
PutIssues(issues, errs) ==
  IF issues = << >> THEN errs
  ELSE PutIssues(Tail(issues),
                 Put(errs, Join(Head(issues).path, "."),
                     EStr(Head(issues).message)))

\* Variant: only boolean true counts.
IsTrueOnly(value) == value = EBool(TRUE)

\* typeof value === 'string' || value
IsStringOrTruthy(value) == value.t = "string" \/ value = EBool(TRUE)

validate(s, vals) ==
  LET result == safeParseObject(s, vals)
      errs == IF ~result.success THEN PutIssues(result.issues, << >>)
              ELSE << >>
      vs == ObjectValues(errs)
  IN [errors |-> errs,
      ret |-> [isValid |->
                 FindIndex([i \in 1..Len(vs) |-> IsStringOrTruthy(vs[i])])
                   = -1,
               sanitizedValues |->
                 IF result.success THEN result.data ELSE << >>]]

\* Variant: on failure the fields that pass are returned.
getSanitizedValuesPartial(shape, vals) ==
  LET passing == {k \in ShapeKeys(shape) :
                    safeParse(ShapeRule(shape, k), Get(vals, k)).success}
  IN [k \in passing |-> safeParse(ShapeRule(shape, k), Get(vals, k)).data]

\* z.object(toValue(schema)).safeParse(values.value)
getSanitizedValues(shape, vals) ==
  LET result == safeParseObject(ZodObject(shape, "strip"), vals)
  IN IF result.success THEN result.data ELSE << >>

\* Variant: every entry is reset to false, the keys stay.
clearToFalse(errs) == [k \in DOMAIN errs |-> EBool(FALSE)]

\* errors.value = {}
clear(errs) == << >>

\* Object.keys(obj) is in insertion order: any order of the keys.
KeyOrders(obj) ==
  {o \in [1..Cardinality(DOMAIN obj) -> DOMAIN obj] :
     \A i, j \in DOMAIN o : i # j => o[i] # o[j]}

\* Variant: the keys of obj2 are the ones compared.
diffKeysOfSecond(obj1, obj2, keys) ==
  SeqOf({key \in DOMAIN obj2 : obj2[key] # Get(obj1, key)})

\* diffKeys(obj1, obj2), with the keys of obj1 in the order `keys`
diffKeys(obj1, obj2, keys) ==
  LET Differs(key) == obj1[key] # Get(obj2, key)
  IN SelectSeq(keys, Differs)

\* the set of the elements of an array
Elements(array) == {array[i] : i \in 1..Len(array)}

\* for (const p of propertiesThatChanged) validateProperty(p, newValues[p])
RECURSIVE ValidateEach(_, _, _, _)
ValidateEach(names, newValues, shape, errs) ==
  IF names = << >> THEN Outcome("none", errs)
  ELSE LET r == validateProperty(Head(names), Get(newValues, Head(names)),
                                 shape, errs)
       IN IF r.thrown # "none" THEN r
          ELSE ValidateEach(Tail(names), newValues, shape, r.errors)

\* the callback of watch(values, ...)
WatchCallback(newValues, oldValues, keys, shape, errs) ==
  LET propertiesThatChanged == diffKeys(newValues, oldValues, keys)
  IN IF Len(propertiesThatChanged) > 1
       THEN ValidateEach(propertiesThatChanged, newValues, shape, errs)
       ELSE Outcome("none", errs)

(***************************************************************************)
(* Actions.                                                                *)
(***************************************************************************)
Fixed == UNCHANGED <<engine, validationSchema, options, cells, watching>>

\* The call of the composable.
Construct ==
  /\ engine = "Uninitialized"
  /\ IF ~IsZodObject(validationSchema)
       THEN /\ engine' = "Failed"
            /\ last' = Call("construct", "SchemaTypeError", "", "", EBool(FALSE),
                            NoReturn)
            /\ UNCHANGED <<errors, cells, watching>>
       ELSE /\ engine' = "Ready"
            /\ errors' = << >>
            /\ cells' = {"errors", "isValid"}
            /\ watching' = (Mode = "onChange")
            /\ last' = Call("construct", "none", "", "", EBool(FALSE), NoReturn)
  /\ UNCHANGED <<validationSchema, options, values>>

HandleInputBlur(e) ==
  /\ engine = "Ready"
  /\ LET r == handleInputBlur(e, values, schema, errors)
     IN /\ errors' = r.errors
        /\ last' = Call("handleInputBlur", r.thrown, TriggerKind(e),
                        TriggerName(e), EBool(FALSE), NoReturn)
  /\ UNCHANGED values
  /\ Fixed

OverrideFieldError(name, errorValue) ==
  /\ engine = "Ready"
  /\ errors' = overrideFieldError(name, errorValue, errors)
  /\ last' = Call("overrideFieldError", "none", "", name, errorValue,
                  NoReturn)
  /\ UNCHANGED values
  /\ Fixed

Validate ==
  /\ engine = "Ready"
  /\ LET r == validate(validationSchema, values)
     IN /\ errors' = r.errors
        /\ last' = Call("validate", "none", "", "", EBool(FALSE), r.ret)
  /\ UNCHANGED values
  /\ Fixed

GetSanitizedValues ==
  /\ engine = "Ready"
  /\ last' = Call("getSanitizedValues", "none", "", "", EBool(FALSE),
                  [isValid |-> FALSE,
                   sanitizedValues |-> getSanitizedValues(schema, values)])
  /\ UNCHANGED <<values, errors>>
  /\ Fixed

Clear ==
  /\ engine = "Ready"
  /\ errors' = clear(errors)
  /\ last' = Call("clear", "none", "", "", EBool(FALSE), NoReturn)
  /\ UNCHANGED values
  /\ Fixed

\* The owner of the values ref replaces the values map and no watch is
\* installed.
SetValues(newValues) ==
  /\ engine = "Ready"
  /\ ~watching
  /\ values' = newValues
  /\ last' = Call("setValues", "none", "", "", EBool(FALSE), NoReturn)
  /\ UNCHANGED errors
  /\ Fixed

\* The owner of the values ref replaces the values map and the watch
\* callback runs with the new and the previous map; `keys` is the order of
\* the keys of the new map.
SetValuesWatched(newValues, keys) ==
  /\ engine = "Ready"
  /\ watching
  /\ values' = newValues
  /\ LET r == WatchCallback(newValues, values, keys, schema, errors)
     IN /\ errors' = r.errors
        /\ last' = [Call("setValues", r.thrown, "", "", EBool(FALSE),
                         NoReturn)
                      EXCEPT !.changed = Elements(diffKeys(newValues, values,
                                                           keys))]
  /\ Fixed

Next ==
  \/ Construct
  \/ \E e \in Triggers : HandleInputBlur(e)
  \/ \E name \in OverrideNames, v \in OverrideValues :
       OverrideFieldError(name, v)
  \/ Validate
  \/ GetSanitizedValues
  \/ Clear
  \/ \E newValues \in ValueMaps : SetValues(newValues)
  \/ \E newValues \in ValueMaps :
       \E keys \in KeyOrders(newValues) : SetValuesWatched(newValues, keys)

Spec == Init /\ [][Next]_vars

(***************************************************************************)
(* Properties.                                                             *)
(***************************************************************************)
\* What a field's rule says of a value: its first violation message, or false.
RuleEntry(name, value) ==
  LET result == safeParse(ShapeRule(schema, name), value)
  IN IF result.success THEN EBool(FALSE)
     ELSE EStr(Head(result.issues).message)

\* All entries but the one of `name` are those of before the step.
OthersUnchanged(name) ==
  /\ DOMAIN errors' = DOMAIN errors \cup {name}
  /\ \A k \in DOMAIN errors \ {name} : errors'[k] = errors[k]

\* C1: handleInputBlur with the name of a field of the shape, given as a
\* string, sets errors[name] to the first violation message of the field's
\* rule on values[name], or to false when the value passes, and leaves every
\* other entry as it was.
C1_BlurSetsFirstMessage ==
  [][(/\ last'.op = "handleInputBlur"
      /\ last'.kind = "string"
      /\ last'.name \in ShapeKeys(schema))
     => /\ last'.thrown = "none"
        /\ errors'[last'.name] = RuleEntry(last'.name, Get(values, last'.name))
        /\ OthersUnchanged(last'.name)]_vars

\* A blur on a field with two violations ("John": too short, not an email)
\* left the message of the first one, next to an entry of an earlier validate.
C1_Witness ==
  /\ last.op = "handleInputBlur" /\ last.kind = "string"
  /\ last.name = "name"
  /\ validationSchema = StrictSchema
  /\ Get(values, "name") = Str("John")
  /\ DOMAIN errors = {"name", ""}
  /\ errors["name"] = EStr("String must contain at least 5 character(s)")

\* C2: validate returns isValid false and no sanitized values when the values
\* fail the parse of the whole schema, and isValid true with the parsed
\* output when they pass, whatever the errors were before.
C2_ValidateReturn ==
  last.op = "validate" =>
    LET result == safeParseObject(validationSchema, values)
    IN IF result.success
         THEN /\ last.ret.isValid = TRUE
              /\ last.ret.sanitizedValues = result.data
         ELSE /\ last.ret.isValid = FALSE
              /\ last.ret.sanitizedValues = << >>

\* validate on values that pass returned the coerced object: "30" became 30.
C2_Witness ==
  /\ last.op = "validate"
  /\ validationSchema = PassSchema
  /\ values = [name |-> Str("john@doe.io"), age |-> Str("30")]
  /\ last.ret.isValid
  /\ last.ret.sanitizedValues = [name |-> Str("john@doe.io"), age |-> Num(30)]

\* The violations of the parse of the whole schema on the current values.
Violations ==
  LET result == safeParseObject(validationSchema, values)
  IN IF result.success THEN {}
     ELSE {result.issues[i] : i \in 1..Len(result.issues)}

\* C3: after validate the keys of errors are exactly the dotted paths of the
\* violations of the whole parse (none when it succeeds), each key holds the
\* message of a violation at that path, and nothing else is left.
C3_ValidateReplaces ==
  last.op = "validate" =>
    /\ DOMAIN errors = {Join(i.path, ".") : i \in Violations}
    /\ \A k \in DOMAIN errors :
         \E i \in Violations :
           Join(i.path, ".") = k /\ errors[k] = EStr(i.message)

\* validate on values with a key outside a strict shape and a field with
\* two violations: the root violation sits under the empty path.
C3_Witness ==
  /\ last.op = "validate"
  /\ validationSchema = StrictSchema
  /\ values = [name |-> Str("John"), value |-> Str("John")]
  /\ DOMAIN errors = {"name", ""}
  /\ errors[""] = EStr("Unrecognized key(s) in object: 'value'")
  /\ errors["name"] = EStr("Invalid email")

\* C4: clear leaves errors empty and isValid true, from any state.
C4_ClearEmpties ==
  last.op = "clear" => errors = << >> /\ isValid = TRUE

\* clear in onChange mode, on values that fail the schema.
C4_Witness ==
  /\ last.op = "clear"
  /\ errors = << >>
  /\ validationSchema = TestSchema
  /\ watching
  /\ Violations # {}

\* C5: overrideFieldError(name, v) sets errors[name] to v, for a name of the
\* shape or not, leaves the other entries, and isValid reads false when v is
\* true or a non-empty string.
C5_OverrideExact ==
  [][last'.op = "overrideFieldError"
     => /\ errors'[last'.name] = last'.value
        /\ OthersUnchanged(last'.name)
        /\ (last'.value = EBool(TRUE)
            \/ (last'.value.t = "string" /\ last'.value.s # "")
              => isValid' = FALSE)]_vars

\* An override with a message on a name that is not in the shape.
C5_Witness ==
  /\ last.op = "overrideFieldError"
  /\ last.name \notin ShapeKeys(schema)
  /\ last.value = EStr("Custom error message")
  /\ errors[last.name] = EStr("Custom error message")
  /\ Cardinality(DOMAIN errors) > 1
  /\ ~isValid

\* C6 as stated: isValid is true exactly when no entry is a non-empty string
\* and no entry is true, so that an empty string leaves it true.
C6_EmptyStringIsNoError ==
  engine = "Ready" =>
    (isValid = TRUE <=>
       \A k \in DOMAIN errors :
         /\ ~(errors[k].t = "string" /\ errors[k].s # "")
         /\ errors[k] # EBool(TRUE))

\* C6: isValid is true exactly when no entry is a string, empty or not, and
\* no entry is true; an entry false leaves it true, an empty string does not.
C6_IsValidIffNoStringNoTrue ==
  engine = "Ready" =>
    (isValid = TRUE <=>
       \A k \in DOMAIN errors :
         errors[k].t # "string" /\ errors[k] # EBool(TRUE))

\* An override with the empty string next to an entry false: isValid is false.
C6_Witness ==
  /\ last.op = "overrideFieldError"
  /\ last.value = EStr("")
  /\ \E k \in DOMAIN errors : errors[k] = EBool(FALSE)
  /\ \A k \in DOMAIN errors : errors[k] \in {EBool(FALSE), EStr("")}
  /\ isValid = FALSE

\* C7: the call with a schema that is not a ZodObject throws before any
\* state exists (no errors cell, no isValid cell, no watch) and the call with
\* a ZodObject does not throw.
C7_ConstructionGuard ==
  /\ engine = "Failed"
       => /\ validationSchema.kind # "ZodObject"
          /\ last.op = "construct" /\ last.thrown = "SchemaTypeError"
          /\ cells = {} /\ ~watching /\ errors = << >>
  /\ engine = "Ready"
       => /\ validationSchema.kind = "ZodObject"
          /\ cells = {"errors", "isValid"}
  /\ last.op = "construct" /\ validationSchema.kind = "ZodObject"
       => last.thrown = "none" /\ engine = "Ready"
  /\ last.op = "construct" /\ validationSchema.kind # "ZodObject"
       => engine = "Failed"

\* The call with z.string() and the onChange mode has thrown.
C7_Witness ==
  /\ engine = "Failed"
  /\ validationSchema = ZodString
  /\ Mode = "onChange"
  /\ last.thrown = "SchemaTypeError"

\* C8: right after the call, before any operation, errors is empty and
\* isValid is true, in both modes.
C8_FreshEngine ==
  engine = "Ready" /\ last.op = "construct"
    => errors = << >> /\ isValid = TRUE

\* A fresh engine on the empty schema in onChange mode.
C8_Witness ==
  /\ engine = "Ready" /\ last.op = "construct"
  /\ validationSchema = EmptySchema
  /\ Mode = "onChange" /\ watching
  /\ isValid

\* What the resolution of a string trigger is said to give.
ResolvedFromValues(name) ==
  Resolve(Trigger("string", name, NoTarget), values)
    = [thrown |-> "none", name |-> name, value |-> Get(values, name)]

\* C9 as stated: MissingNameAttributeError exactly for an event whose target
\* has no name or an empty one, UnsupportedTriggerError exactly for a trigger
\* that is neither a string nor an event, no throw for any string, and errors
\* unchanged by a call that throws.
C9_AnyStringResolves ==
  [][last'.op = "handleInputBlur"
     => /\ last'.thrown = "MissingNameAttributeError"
             <=> (last'.kind = "event" /\ last'.name = "")
        /\ last'.thrown = "UnsupportedTriggerError"
             <=> last'.kind \notin {"string", "event"}
        /\ last'.kind = "string"
             => last'.thrown = "none" /\ ResolvedFromValues(last'.name)
        /\ last'.thrown # "none" => errors' = errors]_vars

\* C9: MissingNameAttributeError exactly for an event whose target has no
\* name or an empty one, UnsupportedTriggerError exactly for a trigger that
\* is neither a non-empty string nor an event (the empty string included), a
\* non-empty string resolves to (trigger, values[trigger]) and raises neither
\* of the two errors, and errors is unchanged by a call that throws, whatever
\* it throws.
C9_TriggerErrors ==
  [][last'.op = "handleInputBlur"
     => /\ last'.thrown = "MissingNameAttributeError"
             <=> (last'.kind = "event" /\ last'.name = "")
        /\ last'.thrown = "UnsupportedTriggerError"
             <=> /\ ~(last'.kind = "string" /\ last'.name # "")
                 /\ last'.kind # "event"
        /\ last'.kind = "string" /\ last'.name # ""
             => /\ last'.thrown \notin {"MissingNameAttributeError",
                                        "UnsupportedTriggerError"}
                /\ ResolvedFromValues(last'.name)
        /\ last'.thrown # "none" => errors' = errors]_vars

\* An event without a name threw and the entries in place stayed.
C9_Witness ==
  /\ last.op = "handleInputBlur"
  /\ last.kind = "event" /\ last.name = ""
  /\ last.thrown = "MissingNameAttributeError"
  /\ errors # << >>

\* C10: for an event with a name, the value validated is values[name] when
\* the values map has the key, so errors[name] is what the field's rule says
\* of values[name].
C10_EventValidatesBoundValue ==
  [][(/\ last'.op = "handleInputBlur"
      /\ last'.kind = "event"
      /\ last'.name # ""
      /\ last'.name \in DOMAIN values
      /\ last'.name \in ShapeKeys(schema))
     => errors'[last'.name] = RuleEntry(last'.name, values[last'.name])]_vars


\* C11: handleInputBlur with a non-empty string, or an event with a name,
\* whose name is not a key of the shape does not throw and leaves errors as
\* it was.
C11_UnknownNameIgnored ==
  [][(/\ last'.op = "handleInputBlur"
      /\ last'.kind \in {"string", "event"}
      /\ last'.name # ""
      /\ last'.name \notin ShapeKeys(schema))
     => last'.thrown = "none" /\ errors' = errors]_vars

\* The fields of the shape whose rule rejects the current value.
FailingFields ==
  {k \in ShapeKeys(schema) :
     ~safeParse(ShapeRule(schema, k), Get(values, k)).success}

C13_SanitizedEqualsValidate ==
  last.op = "getSanitizedValues" =>
    last.ret.sanitizedValues
      = validate(validationSchema, values).ret.sanitizedValues


\* A step in which the values map was replaced while the watch was installed.
WatchedUpdate == last'.op = "setValues" /\ watching

\* C14: in onChange mode, an update that the callback reports as changing at
\* most one field leaves errors as it was; an update reported as changing two
\* or more fields sets errors[field], for every changed field, to the first
\* message of its rule on the new value or to false, and touches the entry
\* of no field that did not change.
C14_ChangeValidatesAllChanged ==
  [][WatchedUpdate =>
       IF Cardinality(last'.changed) <= 1
         THEN errors' = errors
         ELSE /\ \A k \in last'.changed \cap ShapeKeys(schema) :
                   /\ k \in DOMAIN errors'
                   /\ errors'[k] = RuleEntry(k, values'[k])
              /\ \A k \in (DOMAIN errors \cup DOMAIN errors') \ last'.changed :
                   /\ k \in DOMAIN errors /\ k \in DOMAIN errors'
                   /\ errors'[k] = errors[k]]_vars

\* C15: the watch is installed exactly when the options name the mode
\* onChange; without it (options omitted) a replacement of the values map
\* leaves errors and isValid as they were, and errors changes only in a call
\* of handleInputBlur, validate, overrideFieldError or clear.
C15_WatchOnlyInOnChange ==
  [][/\ engine' = "Ready" =>
          (watching' <=> (options.given /\ options.mode = "onChange"))
     /\ (~options.given /\ last'.op = "setValues") =>
          errors' = errors /\ isValid' = isValid
     /\ (~options.given /\ engine = "Ready" /\ errors' # errors) =>
          last'.op \in {"handleInputBlur", "validate", "overrideFieldError",
                        "clear"}]_vars

\* Without options, two values changed at once and the errors left by
\* earlier calls stayed.
C15_Witness ==
  /\ ~options.given
  /\ ~watching
  /\ last.op = "setValues"
  /\ validationSchema = TestSchema
  /\ values = [name |-> Str("John"), age |-> Num(10)]
  /\ errors = [name |-> EBool(FALSE)]

\* C16: the changed set of an update is the set of keys of the PREVIOUS map
\* whose value there differs from the value in the CURRENT map.
C16_ChangedOverPreviousKeys ==
  [][WatchedUpdate =>
       last'.changed = {k \in DOMAIN values : values[k] # Get(values', k)}]_vars

\* C16, amended: the changed set of an update is the set of keys of the
\* CURRENT map whose value there differs from the value in the PREVIOUS map:
\* a key that was added counts as changed, a key that was removed does not;
\* when two or more keys changed and the callback did not throw, each of
\* them has an entry in errors afterwards.
C16_ChangedOverCurrentKeys ==
  [][WatchedUpdate =>
       /\ last'.changed = {k \in DOMAIN values' : values'[k] # Get(values, k)}
       /\ last'.changed \subseteq DOMAIN values'
       /\ (DOMAIN values' \ DOMAIN values) \subseteq last'.changed
       /\ (DOMAIN values \ DOMAIN values') \cap last'.changed = {}
       /\ (Cardinality(last'.changed) > 1 /\ last'.thrown = "none") =>
            last'.changed \subseteq DOMAIN errors']_vars

\* An update changed both keys of the new map, one of them to a value that
\* fails its rule, and both were validated.
C16_Witness ==
  /\ watching
  /\ last.op = "setValues"
  /\ last.thrown = "none"
  /\ validationSchema = TestSchema
  /\ values = [name |-> Str("john@doe.io"), age |-> Num(10)]
  /\ last.changed = {"name", "age"}
  /\ DOMAIN errors = {"name", "age"}

\* C18: only the construction and handleInputBlur throw; validate,
\* getSanitizedValues, overrideFieldError, clear and the watch callback of a
\* values update never do.
C18_OnlyConstructAndBlurThrow ==
  last.op \notin {"construct", "handleInputBlur"} => last.thrown = "none"


\* A step that repeats the call before it: the same operation with the same
\* arguments.  A trigger that is an event is not told apart by its value in
\* `last`, so of the triggers only the strings count here.
RepeatedCall ==
  /\ last'.op = last.op
  /\ last.op \in {"handleInputBlur", "validate", "overrideFieldError",
                  "clear", "getSanitizedValues"}
  /\ last.op = "handleInputBlur" => last.kind = "string"
  /\ last'.kind = last.kind
  /\ last'.name = last.name
  /\ last'.value = last.value
  /\ values' = values

\* C17: with the values fixed, a call of handleInputBlur, validate,
\* overrideFieldError, clear or getSanitizedValues made twice in a row leaves
\* the errors, isValid, the return value and the error thrown that the first
\* call left; for a trigger that is not a string, a second application of
\* handleInputBlur to the outcome of the first gives that outcome again.
C17_Idempotent ==
  [][/\ RepeatedCall =>
          /\ errors' = errors
          /\ isValid' = isValid
          /\ last'.ret = last.ret
          /\ last'.thrown = last.thrown
     /\ (last'.op = "handleInputBlur" /\ last'.kind # "string") =>
          \A e \in Triggers :
            (TriggerKind(e) = last'.kind /\ TriggerName(e) = last'.name) =>
              LET once == handleInputBlur(e, values, schema, errors)
              IN handleInputBlur(e, values, schema, once.errors) = once]_vars

\* handleInputBlur('name') left a message, and a second call on the same
\* values leaves the same message.
C17_Witness ==
  /\ last.op = "handleInputBlur"
  /\ last.kind = "string"
  /\ last.name = "name"
  /\ last.thrown = "none"
  /\ "name" \in DOMAIN errors
  /\ errors["name"].t = "string"
  /\ handleInputBlur(Trigger("string", "name", NoTarget), values, schema,
                     errors).errors = errors

\* C19: the isValid that validate returns is the computed isValid read right
\* after the call, and it is true exactly when the parse of the values
\* against the whole schema succeeded.
C19_ValidateIsValidAgrees ==
  last.op = "validate" =>
    /\ last.ret.isValid = isValid
    /\ last.ret.isValid <=> safeParseObject(validationSchema, values).success
    /\ last.ret.isValid <=> (errors = << >>)

\* validate failed on a strict schema through an unrecognized key alone.
C19_Witness ==
  /\ last.op = "validate"
  /\ validationSchema = StrictSchema
  /\ values = [name |-> Str("john@doe.io"), value |-> Str("John")]
  /\ ~last.ret.isValid
  /\ ~isValid
  /\ DOMAIN errors = {""}

\* C20: after validate, for every field of the shape, errors has at that
\* field what handleInputBlur with the field's name writes there: no entry
\* where handleInputBlur writes false, and otherwise the same message, the
\* first message of the field's rule.
C20_ValidateAgreesWithBlur ==
  last.op = "validate" =>
    \A f \in ShapeKeys(schema) :
      LET blur == handleInputBlur(Trigger("string", f, NoTarget), values,
                                  schema, << >>).errors[f]
      IN IF blur = EBool(FALSE)
           THEN f \notin DOMAIN errors
           ELSE /\ f \in DOMAIN errors
                /\ errors[f] = blur
                /\ errors[f] = RuleEntry(f, Get(values, f))

====
